---- MODULE Spec2Model ----
(***************************************************************************)
(* Model of the two numerical control loops of the psychophysics tasks:    *)
(*   - NoGoCtrl, the homeostatic catch-trial ("No-Go") rate controller     *)
(*     (src/experiments/noGoController.js, src/unnamed/part_001);          *)
(*   - the context-aware QUEST+ wrapper                                    *)
(*     (src/experiments/adaptiveQuest.js, src/unnamed/part_000).           *)
(*                                                                         *)
(* JavaScript numbers are modelled as exact rationals <<n, d>> (d > 0, in  *)
(* lowest terms); NaN is <<0, 0>> and +Infinity is <<1, 0>>.               *)
(***************************************************************************)
EXTENDS Integers, Sequences, FiniteSets, TLC

VARIABLES
    \* NoGoCtrl: the configuration object and the closure state, the call
    \* of the last step and what it returned
    cfg, faEma, nNoGo, nFA, ctrlCall, statsRet, decision,
    \* history of the catch trials: how many with responded = false have been
    \* recorded since the last one with responded = true
    missRun,
    \* QUEST+ wrapper: the script loaded, the engines container, the number
    \* of engine generations built, the call of the last step and its result
    page, engines, gen, questCall, questRet,
    \* contextToIndices applied to a context: argument and result
    ctxIn, idxOut,
    \* alphaPriorOnGrid applied to its arguments: arguments and result
    priorIn, priorOut

ctrlVars == <<cfg, faEma, nNoGo, nFA, ctrlCall, statsRet, decision, missRun>>
questVars == <<page, engines, gen, questCall, questRet>>
idxVars == <<ctxIn, idxOut>>
priorVars == <<priorIn, priorOut>>
vars == <<ctrlVars, questVars, idxVars, priorVars>>

(***************************************************************************)
(* Bounds of the model.                                                    *)
(***************************************************************************)
\* longest run of catch trials explored
MaxNoGo == 100
\* number of smoothing steps after which the EMA is no longer followed
MaxEmaDepth == 3

(***************************************************************************)
(* Exact rational arithmetic.                                              *)
(***************************************************************************)
Abs(x) == IF x < 0 THEN -x ELSE x

RECURSIVE GCD(_, _)
GCD(a, b) == IF b = 0 THEN a ELSE GCD(b, a % b)

LCM(a, b) == (a \div GCD(a, b)) * b

Rat(n, d) ==
    LET g == GCD(Abs(n), d)
    IN  <<n \div g, d \div g>>

RAdd(a, b) ==
    LET L == LCM(a[2], b[2])
    IN  Rat(a[1] * (L \div a[2]) + b[1] * (L \div b[2]), L)

RSub(a, b) == RAdd(a, <<-b[1], b[2]>>)

RMul(a, b) ==
    LET g1 == GCD(Abs(a[1]), b[2])
        g2 == GCD(Abs(b[1]), a[2])
    IN  Rat((a[1] \div g1) * (b[1] \div g2), (a[2] \div g2) * (b[2] \div g1))

NaN == <<0, 0>>
Infinity == <<1, 0>>

\* a < b; false when either side is NaN
RLess(a, b) ==
    IF a = NaN \/ b = NaN \/ a = Infinity THEN FALSE
    ELSE IF b = Infinity THEN TRUE
    ELSE LET L == LCM(a[2], b[2])
         IN  a[1] * (L \div a[2]) < b[1] * (L \div b[2])

\* a <= b; false when either side is NaN
RLeq(a, b) == a # NaN /\ b # NaN /\ ~RLess(b, a)

RMax(a, b) == IF RLess(a, b) THEN b ELSE a

RMin(a, b) == IF RLess(b, a) THEN b ELSE a

RZero == <<0, 1>>
ROne == <<1, 1>>

RECURSIVE Pow(_, _)
Pow(b, e) == IF e = 0 THEN 1 ELSE b * Pow(b, e - 1)

(***************************************************************************)
(* NoGoCtrl: configuration and state.                                      *)
(***************************************************************************)
\* the object cfg as the script builds it
ShippedCfg ==
    [ pTargetFA |-> Rat(5, 100),
      fBase     |-> Rat(18, 100),
      fMin      |-> Rat(1, 10),
      fMax      |-> Rat(45, 100),
      Kp        |-> Rat(2, 1),
      emaAlpha  |-> Rat(12, 100) ]

\* faEma = null is the empty tuple; otherwise faEma is a rational.
Null == <<>>

\* ctrlCall is the call made by the last step; statsRet and decision hold
\* what that call returned (NoStats / FALSE when it returned nothing of the
\* kind).

\* values Math.random() may return, all in [0, 1)
RandomValues == { Rat(0, 1), Rat(1, 10), Rat(18, 100), Rat(45, 100), Rat(99, 100) }

NoCall == [op |-> "none", isNoGo |-> FALSE, responded |-> FALSE, rnd |-> RZero]

\* params is the content of the object in the field params, and paramsRef
\* tells which object that is: one of the snapshot's own ("own") or the
\* controller's cfg ("cfg")
NoStats ==
    [ pNoGo |-> RZero, faEma |-> Null, nNoGo |-> -1, nFA |-> -1,
      params |-> ShippedCfg, paramsRef |-> "own" ]

CtrlStart ==
    /\ cfg = ShippedCfg
    /\ faEma = Null
    /\ nNoGo = 0
    /\ nFA = 0
    /\ ctrlCall = NoCall
    /\ statsRet = NoStats
    /\ decision = FALSE
    /\ missRun = 0

\* emaUpdate with the two smoothing weights exchanged
emaUpdate_swapped(ema, obs) ==
    IF ema = Null
    THEN Rat(obs, 1)
    ELSE RAdd(RMul(cfg.emaAlpha, ema), RMul(RSub(ROne, cfg.emaAlpha), Rat(obs, 1)))

\* emaUpdate adding the weighted observation to the whole of the old average
emaUpdate_unweighted(ema, obs) ==
    IF ema = Null
    THEN Rat(obs, 1)
    ELSE RAdd(ema, RMul(cfg.emaAlpha, Rat(obs, 1)))

\* emaUpdate at half the smoothing weight
emaUpdate_halfRate(ema, obs) ==
    IF ema = Null
    THEN Rat(obs, 1)
    ELSE LET a == RMul(cfg.emaAlpha, Rat(1, 2))
         IN  RAdd(RMul(RSub(ROne, a), ema), RMul(a, Rat(obs, 1)))

\* the new moving average after an observation obs in {0, 1}
emaUpdate(ema, obs) ==
    IF ema = Null
    THEN Rat(obs, 1)
    ELSE RAdd(RMul(RSub(ROne, cfg.emaAlpha), ema), RMul(cfg.emaAlpha, Rat(obs, 1)))

\* the model follows a moving average through MaxEmaDepth smoothing steps
Followed(ema) == ema[2] <= Pow(25, MaxEmaDepth)

\* onTrialEnd without the early return for non-catch trials
onTrialEnd_noReturn(isNoGo, responded) ==
    /\ ctrlCall' = [op |-> "onTrialEnd", isNoGo |-> isNoGo,
                    responded |-> responded, rnd |-> RZero]
    /\ statsRet' = NoStats
    /\ decision' = FALSE
    /\ UNCHANGED cfg
    /\ LET obs == IF responded THEN 1 ELSE 0
       IN  /\ nNoGo < MaxNoGo
           /\ Followed(emaUpdate(faEma, obs))
           /\ nNoGo' = nNoGo + 1
           /\ nFA' = IF responded THEN nFA + 1 ELSE nFA
           /\ faEma' = emaUpdate(faEma, obs)
           /\ missRun' = IF responded THEN 0 ELSE missRun + 1
    /\ UNCHANGED <<questVars, idxVars, priorVars>>

\* onTrialEnd counting every catch trial as a false alarm
onTrialEnd_countAll(isNoGo, responded) ==
    /\ ctrlCall' = [op |-> "onTrialEnd", isNoGo |-> isNoGo,
                    responded |-> responded, rnd |-> RZero]
    /\ statsRet' = NoStats
    /\ decision' = FALSE
    /\ UNCHANGED cfg
    /\ IF ~isNoGo
       THEN UNCHANGED <<faEma, nNoGo, nFA, missRun>>
       ELSE LET obs == IF responded THEN 1 ELSE 0
            IN  /\ nNoGo < MaxNoGo
                /\ Followed(emaUpdate(faEma, obs))
                /\ nNoGo' = nNoGo + 1
                /\ nFA' = nFA + 1
                /\ faEma' = emaUpdate(faEma, obs)
                /\ missRun' = IF responded THEN 0 ELSE missRun + 1
    /\ UNCHANGED <<questVars, idxVars, priorVars>>

\* onTrialEnd with the observation inverted (obs = responded ? 0 : 1)
onTrialEnd_invertedObs(isNoGo, responded) ==
    /\ ctrlCall' = [op |-> "onTrialEnd", isNoGo |-> isNoGo,
                    responded |-> responded, rnd |-> RZero]
    /\ statsRet' = NoStats
    /\ decision' = FALSE
    /\ UNCHANGED cfg
    /\ IF ~isNoGo
       THEN UNCHANGED <<faEma, nNoGo, nFA, missRun>>
       ELSE LET obs == IF responded THEN 0 ELSE 1
            IN  /\ nNoGo < MaxNoGo
                /\ Followed(emaUpdate(faEma, obs))
                /\ nNoGo' = nNoGo + 1
                /\ nFA' = IF responded THEN nFA + 1 ELSE nFA
                /\ faEma' = emaUpdate(faEma, obs)
                /\ missRun' = IF responded THEN 0 ELSE missRun + 1
    /\ UNCHANGED <<questVars, idxVars, priorVars>>

onTrialEnd(isNoGo, responded) ==
    /\ ctrlCall' = [op |-> "onTrialEnd", isNoGo |-> isNoGo,
                    responded |-> responded, rnd |-> RZero]
    /\ statsRet' = NoStats
    /\ decision' = FALSE
    /\ UNCHANGED cfg
    /\ IF ~isNoGo
       THEN UNCHANGED <<faEma, nNoGo, nFA, missRun>>
       ELSE LET obs == IF responded THEN 1 ELSE 0
            IN  /\ nNoGo < MaxNoGo
                /\ Followed(emaUpdate(faEma, obs))
                /\ nNoGo' = nNoGo + 1
                /\ nFA' = IF responded THEN nFA + 1 ELSE nFA
                /\ faEma' = emaUpdate(faEma, obs)
                /\ missRun' = IF responded THEN 0 ELSE missRun + 1
    /\ UNCHANGED <<questVars, idxVars, priorVars>>

(***************************************************************************)
(* Long runs of trials.  The exact moving average after n smoothing steps  *)
(* has the denominator 25^n, so a long run is followed in rounded          *)
(* arithmetic instead: after each smoothing step the average is rounded to *)
(* a multiple of 1/EmaGrid, down or up.  The double the script computes    *)
(* lies between the two roundings, and the update is increasing in the     *)
(* average, so what holds for every choice of roundings holds for it.      *)
(***************************************************************************)
\* catch trials in a long run
MaxRunTrials == 27
\* catch trials with responded = true in a long run
MaxRunFA == 1

EmaGrid == Pow(10, 6)

\* x in [0, 1] rounded down and up to a multiple of 1/EmaGrid
RoundDown(x) ==
    LET L == LCM(x[2], EmaGrid)
    IN  Rat((x[1] * (L \div x[2])) \div (L \div EmaGrid), EmaGrid)

RoundUp(x) ==
    LET L == LCM(x[2], EmaGrid)
    IN  Rat((x[1] * (L \div x[2]) + (L \div EmaGrid) - 1) \div (L \div EmaGrid), EmaGrid)

Roundings(x) == {RoundDown(x), RoundUp(x)}

onTrialEndRounded(isNoGo, responded) ==
    /\ ctrlCall' = [op |-> "onTrialEnd", isNoGo |-> isNoGo,
                    responded |-> responded, rnd |-> RZero]
    /\ statsRet' = NoStats
    /\ decision' = FALSE
    /\ UNCHANGED cfg
    /\ IF ~isNoGo
       THEN UNCHANGED <<faEma, nNoGo, nFA, missRun>>
       ELSE LET obs == IF responded THEN 1 ELSE 0
            IN  /\ nNoGo < MaxRunTrials
                /\ responded => nFA < MaxRunFA
                /\ nNoGo' = nNoGo + 1
                /\ nFA' = IF responded THEN nFA + 1 ELSE nFA
                /\ faEma' \in Roundings(emaUpdate(faEma, obs))
                /\ missRun' = IF responded THEN 0 ELSE missRun + 1
    /\ UNCHANGED <<questVars, idxVars, priorVars>>

\* estFA() and pNoGo() as functions of the closure variable faEma
estFAAt(ema) == IF ema = Null THEN cfg.pTargetFA ELSE ema

\* pNoGo without the upper clamp
pNoGoAt_noMax(ema) ==
    LET err == RMax(RZero, RSub(estFAAt(ema), cfg.pTargetFA))
        f0  == RAdd(cfg.fBase, RMul(cfg.Kp, err))
    IN  IF RLess(f0, cfg.fMin) THEN cfg.fMin ELSE f0

\* pNoGo with the gain left out
pNoGoAt_noGain(ema) ==
    LET err == RMax(RZero, RSub(estFAAt(ema), cfg.pTargetFA))
        f0  == RAdd(cfg.fBase, err)
        f1  == IF RLess(f0, cfg.fMin) THEN cfg.fMin ELSE f0
    IN  IF RLess(cfg.fMax, f1) THEN cfg.fMax ELSE f1

\* pNoGo with the error taken as target minus estimate
pNoGoAt_flipped(ema) ==
    LET err == RMax(RZero, RSub(cfg.pTargetFA, estFAAt(ema)))
        f0  == RAdd(cfg.fBase, RMul(cfg.Kp, err))
        f1  == IF RLess(f0, cfg.fMin) THEN cfg.fMin ELSE f0
    IN  IF RLess(cfg.fMax, f1) THEN cfg.fMax ELSE f1

\* pNoGo with a signed error (no floor at 0)
pNoGoAt_signed(ema) ==
    LET err == RSub(estFAAt(ema), cfg.pTargetFA)
        f0  == RAdd(cfg.fBase, RMul(cfg.Kp, err))
        f1  == IF RLess(f0, cfg.fMin) THEN cfg.fMin ELSE f0
    IN  IF RLess(cfg.fMax, f1) THEN cfg.fMax ELSE f1

pNoGoAt(ema) ==
    LET err == RMax(RZero, RSub(estFAAt(ema), cfg.pTargetFA))
        f0  == RAdd(cfg.fBase, RMul(cfg.Kp, err))
        f1  == IF RLess(f0, cfg.fMin) THEN cfg.fMin ELSE f0
        f2  == IF RLess(cfg.fMax, f1) THEN cfg.fMax ELSE f1
    IN  f2

estFA == estFAAt(faEma)

pNoGo == pNoGoAt(faEma)

\* decideNoGo counting the catch trial at the moment it is decided
decideNoGo_counts(rnd) ==
    /\ decision' = RLess(rnd, pNoGo)
    /\ ctrlCall' = [op |-> "decideNoGo", isNoGo |-> FALSE,
                    responded |-> FALSE, rnd |-> rnd]
    /\ statsRet' = NoStats
    /\ nNoGo' = IF RLess(rnd, pNoGo) /\ nNoGo < MaxNoGo THEN nNoGo + 1 ELSE nNoGo
    /\ UNCHANGED <<cfg, faEma, nFA, missRun>>
    /\ UNCHANGED <<questVars, idxVars, priorVars>>

decideNoGo(rnd) ==
    /\ decision' = RLess(rnd, pNoGo)
    /\ ctrlCall' = [op |-> "decideNoGo", isNoGo |-> FALSE,
                    responded |-> FALSE, rnd |-> rnd]
    /\ statsRet' = NoStats
    /\ UNCHANGED <<cfg, faEma, nNoGo, nFA, missRun>>
    /\ UNCHANGED <<questVars, idxVars, priorVars>>

\* stats returning the object cfg itself in the field params
stats_aliased ==
    /\ statsRet' = [pNoGo |-> pNoGo, faEma |-> faEma, nNoGo |-> nNoGo,
                    nFA |-> nFA, params |-> cfg, paramsRef |-> "cfg"]
    /\ ctrlCall' = [op |-> "stats", isNoGo |-> FALSE,
                    responded |-> FALSE, rnd |-> RZero]
    /\ decision' = FALSE
    /\ UNCHANGED <<cfg, faEma, nNoGo, nFA, missRun>>
    /\ UNCHANGED <<questVars, idxVars, priorVars>>

\* params: { ...cfg } is a new object with the fields of cfg
stats ==
    /\ statsRet' = [pNoGo |-> pNoGo, faEma |-> faEma, nNoGo |-> nNoGo,
                    nFA |-> nFA, params |-> cfg, paramsRef |-> "own"]
    /\ ctrlCall' = [op |-> "stats", isNoGo |-> FALSE,
                    responded |-> FALSE, rnd |-> RZero]
    /\ decision' = FALSE
    /\ UNCHANGED <<cfg, faEma, nNoGo, nFA, missRun>>
    /\ UNCHANGED <<questVars, idxVars, priorVars>>

\* values a caller may write into a snapshot
Written == {RZero, ROne}

\* the caller assigns to a field of the snapshot stats() has just returned
\* (s.pNoGo = v, s.faEma = v, s.nNoGo = 0, s.nFA = 0): the snapshot is a new
\* object and the closure variables are copied into it by value
writeSnapshot(f, v) ==
    /\ ctrlCall.op = "stats"
    /\ statsRet' = [statsRet EXCEPT ![f] = IF f \in {"nNoGo", "nFA"} THEN 0 ELSE v]
    /\ ctrlCall' = [op |-> "write", isNoGo |-> FALSE,
                    responded |-> FALSE, rnd |-> RZero]
    /\ UNCHANGED <<cfg, faEma, nNoGo, nFA, decision, missRun>>
    /\ UNCHANGED <<questVars, idxVars, priorVars>>

\* the caller assigns to a field of the params object of the snapshot
\* stats() has just returned (s.params.fBase = v): the assignment changes
\* the object the field params refers to
writeParams(f, v) ==
    /\ ctrlCall.op = "stats"
    /\ statsRet' = [statsRet EXCEPT !.params[f] = v]
    /\ cfg' = IF statsRet.paramsRef = "cfg" THEN [cfg EXCEPT ![f] = v] ELSE cfg
    /\ ctrlCall' = [op |-> "write", isNoGo |-> FALSE,
                    responded |-> FALSE, rnd |-> RZero]
    /\ UNCHANGED <<faEma, nNoGo, nFA, decision, missRun>>
    /\ UNCHANGED <<questVars, idxVars, priorVars>>

CtrlOnTrialEnd == \E isNoGo \in BOOLEAN, responded \in BOOLEAN : onTrialEnd(isNoGo, responded)

CtrlDecideNoGo == \E rnd \in RandomValues : decideNoGo(rnd)

CtrlStats == stats

CtrlWriteSnapshot ==
    \E f \in {"pNoGo", "faEma", "nNoGo", "nFA"}, v \in Written : writeSnapshot(f, v)

CtrlWriteParams == \E f \in DOMAIN ShippedCfg, v \in Written : writeParams(f, v)

RunOnTrialEnd ==
    \E isNoGo \in BOOLEAN, responded \in BOOLEAN : onTrialEndRounded(isNoGo, responded)

RunNext == RunOnTrialEnd \/ CtrlDecideNoGo \/ CtrlStats

CtrlNext ==
    \/ CtrlOnTrialEnd
    \/ CtrlDecideNoGo
    \/ CtrlStats
    \/ CtrlWriteSnapshot
    \/ CtrlWriteParams

(***************************************************************************)
(* Context-aware QUEST+ wrapper: context partition.                        *)
(***************************************************************************)
SOA_BINS == << <<100, 200>>, <<200, 350>>, <<350, 550>>, <<550, 900>> >>

ECC_BINS == << <<0, 80>>, <<80, 140>>, <<140, 200>>, <<200, 300>> >>

\* the testers of ANG_GROUPS, each by the sector letter it compares with
ANG_GROUPS ==
    << [name |-> "cardinal-E", grp |-> "E"],
       [name |-> "cardinal-N", grp |-> "N"],
       [name |-> "cardinal-W", grp |-> "W"],
       [name |-> "cardinal-S", grp |-> "S"] >>

\* the JavaScript remainder a % m (sign of the dividend), m > 0
JsRem(a, m) == IF a < 0 THEN -((-a) % m) ELSE a % m

\* -Infinity
NegInfinity == <<-1, 0>>

\* angGroup answering no sector for an angle that is not a number
angGroup_strict(thetaDeg) ==
    LET d == IF thetaDeg[2] = 0 THEN NaN ELSE <<JsRem(thetaDeg[1] + 360, 360), 1>>
    IN  IF d = NaN THEN "none"
        ELSE IF RLess(d, <<45, 1>>) \/ RLeq(<<315, 1>>, d) THEN "E"
        ELSE IF RLess(d, <<135, 1>>) THEN "N"
        ELSE IF RLess(d, <<225, 1>>) THEN "W"
        ELSE "S"

\* angGroup of an angle given as thetaRad * 180 / Math.PI: a whole number
\* of degrees, NaN or an infinity (the remainder of an infinity is NaN)
angGroup(thetaDeg) ==
    LET d == IF thetaDeg[2] = 0 THEN NaN ELSE <<JsRem(thetaDeg[1] + 360, 360), 1>>
    IN  IF RLess(d, <<45, 1>>) \/ RLeq(<<315, 1>>, d) THEN "E"
        ELSE IF RLess(d, <<135, 1>>) THEN "N"
        ELSE IF RLess(d, <<225, 1>>) THEN "W"
        ELSE "S"

\* inRange with the upper end included
inRange_closed(x, b) == RLeq(<<b[1], 1>>, x) /\ RLeq(x, <<b[2], 1>>)

inRange(x, b) == RLeq(<<b[1], 1>>, x) /\ RLess(x, <<b[2], 1>>)

\* Array.prototype.findIndex: 0-based index of the first element that
\* satisfies the callback, or -1; hits[i] is the callback's result on the
\* i-th element
FindIndex(hits) ==
    IF \E i \in 1..Len(hits) : hits[i]
    THEN (CHOOSE i \in 1..Len(hits) : hits[i] /\ \A j \in 1..(i - 1) : ~hits[j]) - 1
    ELSE -1

contextToIndices(c) ==
    [ soaIdx |-> FindIndex([i \in 1..Len(SOA_BINS) |-> inRange(c.soaMs, SOA_BINS[i])]),
      eccIdx |-> FindIndex([i \in 1..Len(ECC_BINS) |-> inRange(c.eccPx, ECC_BINS[i])]),
      angIdx |-> FindIndex([i \in 1..Len(ANG_GROUPS) |->
                               angGroup(c.thetaRad) = ANG_GROUPS[i].grp]) ]

\* the test of suggestDeltaForContext and updateQuestWithOutcome for a
\* context outside the bins
Unmatched(ix) == ix.soaIdx < 0 \/ ix.eccIdx < 0 \/ ix.angIdx < 0

(***************************************************************************)
(* contextToIndices as a function of its argument: the context is drawn    *)
(* from the probe values below and the function is applied to it.          *)
(***************************************************************************)
Whole(S) == { <<n, 1>> : n \in S }

SoaProbes ==
    Whole({-100, 0, 50, 99, 100, 101, 150, 199, 200, 201, 349, 350, 351,
           549, 550, 551, 899, 900, 901, 1500}) \cup {<<399, 2>>, NaN}

EccProbes ==
    Whole({-1, 0, 1, 50, 79, 80, 81, 139, 140, 141, 199, 200, 201, 299,
           300, 301, 1000}) \cup {<<159, 2>>, NaN}

ThetaProbes ==
    Whole({-810, -450, -405, -360, -315, -270, -180, -90, -45, -1, 0, 44, 45, 90,
           134, 135, 180, 224, 225, 270, 314, 315, 359, 360, 450, 630, 1000})
        \cup {NaN, Infinity, NegInfinity}

NoIdx == [soaIdx |-> -2, eccIdx |-> -2, angIdx |-> -2]

NoCtx == [soaMs |-> NaN, eccPx |-> NaN, thetaRad |-> NaN]

IdxIdle == ctxIn = NoCtx /\ idxOut = NoIdx

IdxStart ==
    /\ ctxIn \in [soaMs : SoaProbes, eccPx : EccProbes, thetaRad : ThetaProbes]
    /\ idxOut = NoIdx

IdxApply ==
    /\ idxOut = NoIdx
    /\ idxOut' = contextToIndices(ctxIn)
    /\ UNCHANGED <<ctxIn, ctrlVars, questVars, priorVars>>

(***************************************************************************)
(* Stimulus and parameter grids, psychometric function.                    *)
(***************************************************************************)
RDiv(a, b) == RMul(a, <<b[2], b[1]>>)

RAbs(a) == IF a = NaN THEN NaN ELSE <<Abs(a[1]), a[2]>>

Min(a, b) == IF a < b THEN a ELSE b

linspace(a, b, n) ==
    LET s == RDiv(RSub(b, a), <<n - 1, 1>>)
    IN  [i \in 1..n |-> RAdd(a, RMul(<<i - 1, 1>>, s))]

\* src/experiments/adaptiveQuest.js
magnitudeGridDva == linspace(Rat(5, 100), Rat(250, 100), 40)

\* src/unnamed/part_000
thetaDeltaGrid == linspace(<<4, 1>>, <<72, 1>>, 35)

radiusDeltaGrid == linspace(<<6, 1>>, <<60, 1>>, 28)

betaGrid == << <<2, 1>>, <<3, 1>>, <<4, 1>>, <<5, 1>> >>

lambdaGrid == << Rat(1, 100), Rat(2, 100) >>

guessRate == RZero

\* Math.pow and Math.exp are evaluated in fixed point with ExpScale steps
\* per unit; exponents from 10 on give exp(-x) = 0 at this resolution.
ExpScale == Pow(10, 3)

ExpCap == 10 * ExpScale

\* exp(-k) for k = 0..9, in millionths
ExpTable == <<1000000, 367879, 135335, 49787, 18316, 6738, 2479, 912, 335, 123>>

\* a * b in fixed point, saturating at ExpCap
FxMul(a, b) ==
    IF a >= ExpCap \/ b >= ExpCap THEN ExpCap ELSE Min(ExpCap, (a * b) \div ExpScale)

\* r^k for r = R / ExpScale, in fixed point
FxPow(R, k) ==
    LET pw[j \in 0..k] == IF j = 0 THEN ExpScale ELSE FxMul(pw[j - 1], R)
    IN  pw[k]

\* exp(-f) for f = F / ExpScale < 1 in fixed point: the Taylor polynomial
\* of degree 7 in Horner form, 1 - f(1 - f/2 (1 - f/3 ( ... (1 - f/7))))
RECURSIVE FxSeries(_, _)
FxSeries(F, j) ==
    IF j > 7 THEN ExpScale
    ELSE ExpScale - (F * FxSeries(F, j + 1)) \div (ExpScale * j)

\* exp(-x) for x = X / ExpScale >= 0, in fixed point
FxExpNeg(X) ==
    IF X >= ExpCap THEN 0
    ELSE (ExpTable[(X \div ExpScale) + 1] * FxSeries(X % ExpScale, 1)) \div 1000000

\* beta is a whole number (betaGrid)
pWeibull(stim, alpha, beta, guess, lapse) ==
    IF NaN \in {stim, alpha, beta, guess, lapse} THEN NaN
    ELSE LET r == RDiv(stim, alpha)
             R == IF r[1] \div r[2] >= 10 THEN ExpCap ELSE (r[1] * ExpScale) \div r[2]
             e == FxExpNeg(FxPow(R, beta[1]))
         IN  RAdd(guess, RMul(RSub(ROne, RAdd(guess, lapse)), Rat(ExpScale - e, ExpScale)))

(***************************************************************************)
(* alphaPriorOnGrid: the log-normal prior over the candidates of alpha.    *)
(* Math.log and Math.exp are evaluated in fixed point with ExpScale steps  *)
(* per unit; a density is kept in the same steps, and is 0 exactly when    *)
(* the double it stands for is 0 (below the smallest subnormal), otherwise *)
(* at least one step.  The candidates are positive rationals.              *)
(***************************************************************************)
Max(a, b) == IF a < b THEN b ELSE a

\* Math.log(2), in millionths
LnTwo == 693147

\* the k with 2^k <= m < 2^(k+1), for a whole number 1 <= m < 2^21
Log2Floor(m) == CHOOSE k \in 0..20 : Pow(2, k) <= m /\ m < Pow(2, k + 1)

\* Math.log(m) for a whole number 1 <= m < 2^21, in fixed point:
\* m = 2^k (1 + y) / (1 - y), ln m = k ln 2 + 2 (y + y^3/3 + y^5/5 + y^7/7)
FxLogWhole(m) ==
    LET k  == Log2Floor(m)
        P  == Pow(2, k)
        Y  == ((m - P) * ExpScale) \div (m + P)
        Y2 == (Y * Y) \div ExpScale
        T3 == (Y * Y2) \div ExpScale
        T5 == (T3 * Y2) \div ExpScale
        T7 == (T5 * Y2) \div ExpScale
    IN  (k * LnTwo) \div ExpScale + 2 * (Y + T3 \div 3 + T5 \div 5 + T7 \div 7)

\* Math.log(a) for a positive rational a, in fixed point
FxLog(a) == FxLogWhole(a[1]) - FxLogWhole(a[2])

\* Math.sqrt(2 * Math.PI), in fixed point
SqrtTwoPi == 2507

\* Math.exp(-x) and a product with it are 0 from x = 745.134 on, where the
\* result is below half the smallest subnormal double
ExpUnderflow == 745134

\* default arguments of alphaPriorOnGrid
kSOA == Rat(20, 100)

kECC == Rat(20, 100)

kANG == Rat(5, 100)

sigma == Rat(35, 100)

\* one entry of pdf: (1/(a*sigma*sqrt(2 pi))) * exp(-(log(a)-mu)^2/(2 sigma^2))
\* with mu in fixed point
LogNormal(a, mu) ==
    LET L    == FxLog(a) - mu
        SQ   == (L * L) \div ExpScale
        tss  == RMul(<<2, 1>>, RMul(sigma, sigma))
        X    == (SQ * tss[2]) \div tss[1]
        SR   == (sigma[1] * SqrtTwoPi) \div sigma[2]
        coef == (ExpScale * ExpScale * a[2]) \div (a[1] * SR)
        lnc  == FxLog(a) + FxLog(<<SR, ExpScale>>)
    IN  IF X + Max(0, lnc) >= ExpUnderflow THEN 0
        ELSE Max(1, (coef * FxExpNeg(X)) \div ExpScale)

\* mu = Math.log(base * scale), in fixed point
PriorMu(soaIdx, eccIdx, angIdx, base) ==
    LET scale == RMul(RMul(RAdd(ROne, RMul(kSOA, <<soaIdx, 1>>)),
                           RAdd(ROne, RMul(kECC, <<eccIdx, 1>>))),
                      RAdd(ROne, RMul(kANG, <<angIdx, 1>>)))
    IN  FxLog(RMul(base, scale))

\* the array pdf
PriorPdf(alphaGrid, soaIdx, eccIdx, angIdx, base) ==
    [n \in 1..Len(alphaGrid) |->
        LogNormal(alphaGrid[n], PriorMu(soaIdx, eccIdx, angIdx, base))]

\* pdf.reduce((x,y)=>x+y,0)
PdfSum(pdf) ==
    LET acc[j \in 0..Len(pdf)] == IF j = 0 THEN 0 ELSE acc[j - 1] + pdf[j]
    IN  acc[Len(pdf)]

alphaPriorOnGrid(alphaGrid, soaIdx, eccIdx, angIdx, base) ==
    LET pdf == PriorPdf(alphaGrid, soaIdx, eccIdx, angIdx, base)
        Z   == IF PdfSum(pdf) = 0 THEN 1 ELSE PdfSum(pdf)
    IN  [n \in 1..Len(pdf) |-> Rat(pdf[n], Z)]

(***************************************************************************)
(* Engines.  A cell is one jsQuestPlus instance; the library is not part   *)
(* of the repository, so a cell is the record of what the wrapper has put  *)
(* into it: the generation of initAdaptiveQuest that built it, the fields  *)
(* set on it and the (stimulus, outcome) pairs accepted by update.  What   *)
(* getStimParams and getEstimates answer is chosen by the environment.     *)
(***************************************************************************)
\* longest history of accepted updates, over all cells
MaxUpdates == 1
\* number of times initAdaptiveQuest is run
MaxInits == 2

Pages == {"vector", "thetaRadius"}

\* keys of the engines container: the array itself in adaptiveQuest.js
\* (dim 'vector'), engines.theta and engines.radius in part_000
Dims(pg) == IF pg = "vector" THEN {"vector"} ELSE {"theta", "radius"}

\* values of the changeType field of a context (not read in adaptiveQuest.js)
ChangeTypes(pg) == IF pg = "vector" THEN {"vector"} ELSE {"theta", "radius", "other"}

\* the index triples of SOA_BINS.map(... ECC_BINS.map(... ANG_GROUPS.map(...)))
CellIdx ==
    (0..(Len(SOA_BINS) - 1)) \X (0..(Len(ECC_BINS) - 1)) \X (0..(Len(ANG_GROUPS) - 1))

EmptyEngines(pg) == [d \in Dims(pg) |-> <<>>]

\* the stimulus grid of a cell
Grid(pg, ct) ==
    IF pg = "vector" THEN magnitudeGridDva
    ELSE IF ct = "theta" THEN thetaDeltaGrid ELSE radiusDeltaGrid

\* base threshold passed to alphaPriorOnGrid
PriorBase(d) ==
    IF d = "vector" THEN Rat(6, 10) ELSE IF d = "theta" THEN <<8, 1>> ELSE <<10, 1>>

\* the fields initAdaptiveQuest sets on the engine of cell ix of dimension
\* d, each kept by what it is computed from: _alphaGrid by the grid's
\* name, _priorAlpha by the arguments alphaPriorOnGrid is called with, and
\* _priorBeta and _priorLam, which are Array(n).fill(1/n), by n.  No code
\* assigns them again, so they are a function of the cell and not part of
\* the state.
CellFields(d, ix) ==
    [ alphaGrid  |-> d,
      priorAlpha |-> <<ix[1], ix[2], ix[3], PriorBase(d)>>,
      priorBeta  |-> Len(betaGrid),
      priorLam   |-> Len(lambdaGrid) ]

\* the stimulus grid of the cells of dimension d
GridOfDim(d) ==
    IF d = "vector" THEN magnitudeGridDva
    ELSE IF d = "theta" THEN thetaDeltaGrid ELSE radiusDeltaGrid

\* the value of the field _priorAlpha of cell ix of dimension d
PriorAlphaOf(d, ix) == alphaPriorOnGrid(GridOfDim(d), ix[1], ix[2], ix[3], PriorBase(d))

\* Array(n).fill(1/n)
UniformVector(n) == [i \in 1..n |-> Rat(1, n)]

\* the belief the engine of cell ix of dimension d starts from.  The
\* constructor is called with psych_func, stim_samples and psych_samples
\* only; _priorAlpha, _priorBeta and _priorLam are fields put on the object
\* afterwards, which no code passes to the library, and _setPrior has an
\* empty body and is never called.  The belief is therefore the one the
\* library builds from the samples alone, uniform over each of them.
StartBelief(d, ix) ==
    [ alpha |-> UniformVector(Len(GridOfDim(d))),
      beta  |-> UniformVector(Len(betaGrid)),
      lapse |-> UniformVector(Len(lambdaGrid)) ]

\* the engine built for cell ix of dimension d by the g-th run of
\* initAdaptiveQuest: a new jsQuestPlus instance, which has been given no
\* observation
NewCell(d, ix, g) == [gen |-> g, obs |-> <<>>]

\* the context recorded for a call that did not reach the engine lookup
NoQuestCtx == [changeType |-> "none", soaMs |-> NaN, eccPx |-> NaN, thetaRad |-> NaN]

\* the record of the last call: the operation, whether its context was in
\* the bins, the engine methods it called in order, the context with which
\* it reached the engine lookup (for a proposal, which reads the cell only
\* through the two engine methods, its changeType alone), what
\* getStimParams and getEstimates did,
\* the target the loop was run with, whether eng.update threw and whether
\* console.warn was called
NoQuestCall ==
    [ op |-> "none", matched |-> FALSE, engCalls |-> <<>>, ctx |-> NoQuestCtx,
      stim |-> [kind |-> "none", val |-> RZero], est |-> [kind |-> "none", val |-> <<>>],
      target |-> NaN, threw |-> FALSE, warned |-> FALSE ]

NoRet == [kind |-> "none", val |-> RZero]
Undefined == [kind |-> "undefined", val |-> RZero]
Thrown == [kind |-> "throw", val |-> RZero]
Value(v) == [kind |-> "value", val |-> v]

QuestIdle ==
    /\ page = "vector"
    /\ engines = EmptyEngines("vector")
    /\ gen = 0
    /\ questCall = NoQuestCall
    /\ questRet = NoRet

QuestStart ==
    /\ page \in Pages
    /\ engines = EmptyEngines(page)
    /\ gen = 0
    /\ questCall = NoQuestCall
    /\ questRet = NoRet

\* initAdaptiveQuest leaving out the last direction group
initAdaptiveQuest_shortMap ==
    /\ gen < MaxInits
    /\ gen' = gen + 1
    /\ engines' = [d \in Dims(page) |->
                      [ix \in {x \in CellIdx : x[3] < Len(ANG_GROUPS) - 1} |->
                          NewCell(d, ix, gen + 1)]]
    /\ questCall' = [NoQuestCall EXCEPT !.op = "init"]
    /\ questRet' = Undefined
    /\ UNCHANGED <<page, ctrlVars, idxVars, priorVars>>

initAdaptiveQuest ==
    /\ gen < MaxInits
    /\ gen' = gen + 1
    /\ engines' = [d \in Dims(page) |-> [ix \in CellIdx |-> NewCell(d, ix, gen + 1)]]
    /\ questCall' = [NoQuestCall EXCEPT !.op = "init"]
    /\ questRet' = Undefined
    /\ UNCHANGED <<page, ctrlVars, idxVars, priorVars>>

\* the key under which changeType selects among the engines
EngKey(ct) == IF page = "vector" THEN "vector" ELSE ct

\* engines[changeType][soaIdx][eccIdx][angIdx] is an engine; otherwise
\* the lookup reads a property of undefined and throws a TypeError
HasCell(ct, ix) ==
    /\ EngKey(ct) \in DOMAIN engines
    /\ <<ix.soaIdx, ix.eccIdx, ix.angIdx>> \in DOMAIN engines[EngKey(ct)]

CellAt(ct, ix) == engines[EngKey(ct)][<<ix.soaIdx, ix.eccIdx, ix.angIdx>>]

\* what eng.getStimParams() may do: throw, or return a stimulus sample
StimResults(pg, ct) ==
    {Thrown, Value(Grid(pg, ct)[12])}

\* what eng.getEstimates('mode') may do: throw, return no array, a short
\* array, an array of NaN, or [alpha, beta, guess, lapse] from the samples
EstResults(pg, ct) ==
    { [kind |-> "throw", val |-> <<>>],
      [kind |-> "undefined", val |-> <<>>],
      [kind |-> "array", val |-> <<Grid(pg, ct)[3], betaGrid[1]>>],
      [kind |-> "array", val |-> <<NaN, NaN, NaN, NaN>>],
      [kind |-> "array", val |-> <<Grid(pg, ct)[3], betaGrid[1], guessRate, lambdaGrid[1]>>],
      [kind |-> "array", val |-> <<Grid(pg, ct)[20], betaGrid[4], guessRate, lambdaGrid[2]>>] }

\* the loop body taking a candidate unless bestDiff <= d, so that a
\* distance that cannot be compared replaces the best so far
ScanStep_nanWins(grid, est, target, acc, n) ==
    LET v == grid[n]
        p == pWeibull(v, est[1], est[2], est[3], est[4])
        d == IF p = NaN THEN NaN ELSE RAbs(RSub(p, target))
    IN  IF ~RLeq(acc[2], d) THEN <<v, d>> ELSE acc

\* one pass of the loop body for candidate grid[n], from accumulator
\* acc = <<best, bestDiff>>
ScanStep(grid, est, target, acc, n) ==
    LET v == grid[n]
        p == pWeibull(v, est[1], est[2], est[3], est[4])
        d == IF p = NaN THEN NaN ELSE RAbs(RSub(p, target))
    IN  IF RLess(d, acc[2]) THEN <<v, d>> ELSE acc

\* the merge with the later result also winning a tie (d <= bestDiff)
ScanMerge_lastWins(left, right) == IF RLeq(right[2], left[2]) THEN right ELSE left

\* the later of two loop results replaces the earlier only where it is
\* strictly closer
ScanMerge(left, right) == IF RLess(right[2], left[2]) THEN right ELSE left

\* the loop over the whole grid: <<best, bestDiff>> at its end, from
\* best = start and bestDiff = Infinity.  The loop keeps the earlier of
\* two candidates unless the later is strictly closer, so a range of
\* candidates is evaluated as its two halves in order.
Scan(grid, est, target, start) ==
    LET N == Len(grid)
        part[r \in (1..N) \X (1..N)] ==
            IF r[1] = r[2]
            THEN ScanStep(grid, est, target, <<start, Infinity>>, r[1])
            ELSE ScanMerge(part[<<r[1], (r[1] + r[2]) \div 2>>],
                           part[<<((r[1] + r[2]) \div 2) + 1, r[2]>>])
    IN  IF N = 0 THEN <<start, Infinity>> ELSE part[<<1, N>>]

\* target probabilities passed to suggestDeltaForContext
Targets == {Rat(70, 100), Rat(99, 100)}

\* the argument tuples <<page, changeType, est, target, chosen>> with which
\* the loop is entered, and its result for each, evaluated once
ScanCases ==
    { <<pg, ct, est.val, t, stim.val>> :
         pg \in Pages, ct \in {"vector", "theta", "radius"}, t \in Targets,
         est \in { e \in UNION { EstResults(pg2, ct2) : pg2 \in Pages, ct2 \in {"vector", "theta", "radius"} } :
                      e.kind = "array" /\ Len(e.val) >= 4 },
         stim \in { x \in UNION { StimResults(pg2, ct2) : pg2 \in Pages, ct2 \in {"vector", "theta", "radius"} } :
                       x.kind = "value" } }

ScanResult == [a \in ScanCases |-> Scan(Grid(a[1], a[2]), a[3], a[4], a[5])]

\* the fallback returned for a context outside the bins
Fallback(ct) ==
    IF page = "vector" THEN Rat(6, 10)
    ELSE IF ct = "theta" THEN <<12, 1>> ELSE <<12, 1>>

\* the try block without its catch clause: an exception of getEstimates
\* reaches the caller
refine_noCatch(ct, stim, est, target) ==
    IF est.kind = "throw" THEN Thrown
    ELSE IF est.kind = "array" /\ Len(est.val) >= 4
    THEN Value(ScanResult[<<page, ct, est.val, target, stim.val>>][1])
    ELSE Value(stim.val)

\* what suggestDeltaForContext returns once getStimParams has returned
\* stim: the result of the loop when getEstimates returned an array of at
\* least four values, else (also when it threw) the engine's own proposal
refine(ct, stim, est, target) ==
    IF est.kind = "array" /\ Len(est.val) >= 4
    THEN Value(ScanResult[<<page, ct, est.val, target, stim.val>>][1])
    ELSE Value(stim.val)

\* the body of suggestDeltaForContext for context c, from the indices ix
\* and the outcome unm of the test for a context outside the bins
suggestFrom(c, ix, unm, target) ==
    LET ct == c.changeType
        sel == [NoQuestCtx EXCEPT !.changeType = ct]
        call == [NoQuestCall EXCEPT !.op = "suggest",
                                    !.matched = ~Unmatched(contextToIndices(c))]
    IN  IF unm
        THEN /\ questRet' = Value(Fallback(ct))
             /\ questCall' = call
        ELSE IF ~HasCell(ct, ix)
        THEN /\ questRet' = Thrown
             /\ questCall' = [call EXCEPT !.ctx = sel]
        ELSE \E stim \in StimResults(page, ct) :
                IF stim.kind = "throw"
                THEN /\ questRet' = Thrown
                     /\ questCall' = [call EXCEPT !.ctx = sel, !.stim = stim,
                                                  !.engCalls = <<"getStimParams">>]
                ELSE \E est \in EstResults(page, ct) :
                        /\ questRet' = refine(ct, stim, est, target)
                        /\ questCall' = [call EXCEPT !.ctx = sel, !.stim = stim, !.est = est,
                                                     !.target = target,
                                                     !.engCalls = <<"getStimParams", "getEstimates">>]

\* suggestDeltaForContext with the eccentricity index left out of the
\* test for a context outside the bins
suggestDeltaForContext_noEccTest(c, target) ==
    LET ix == contextToIndices(c)
    IN  /\ suggestFrom(c, ix, ix.soaIdx < 0 \/ ix.angIdx < 0, target)
        /\ UNCHANGED <<page, engines, gen, ctrlVars, idxVars, priorVars>>

\* suggestDeltaForContext building the addressed engine anew on every call
suggestDeltaForContext_rebuilds(c, target) ==
    LET ix == contextToIndices(c)
        key == <<ix.soaIdx, ix.eccIdx, ix.angIdx>>
    IN  /\ suggestFrom(c, ix, Unmatched(ix), target)
        /\ engines' = IF ~Unmatched(ix) /\ HasCell(c.changeType, ix)
                      THEN [engines EXCEPT ![EngKey(c.changeType)][key] =
                                              NewCell(EngKey(c.changeType), key, gen)]
                      ELSE engines
        /\ UNCHANGED <<page, gen, ctrlVars, idxVars, priorVars>>

suggestDeltaForContext(c, target) ==
    LET ix == contextToIndices(c)
    IN  /\ suggestFrom(c, ix, Unmatched(ix), target)
        /\ UNCHANGED <<page, engines, gen, ctrlVars, idxVars, priorVars>>

\* number of (stimulus, outcome) pairs held by all cells together
TotalObs ==
    LET used == UNION { { <<d, ix>> : ix \in { x \in DOMAIN engines[d] : engines[d][x].obs # <<>> } } :
                           d \in DOMAIN engines }
    IN  Cardinality(UNION { { <<q, n>> : n \in 1..Len(engines[q[1]][q[2]].obs) } : q \in used })

\* no catch clause: the exception of eng.update reaches the caller
catchUpdate_rethrow == [ret |-> Thrown, warned |-> FALSE]

\* the catch clause of updateQuestWithOutcome: console.warn, then the
\* function ends and returns undefined
catchUpdate == [ret |-> Undefined, warned |-> TRUE]

\* the body of updateQuestWithOutcome for context c, from the indices ix
\* and the outcome unm of the test for a context outside the bins
updateFrom(c, ix, unm, delta, responded) ==
    LET ct == c.changeType
        key == <<ix.soaIdx, ix.eccIdx, ix.angIdx>>
        call == [NoQuestCall EXCEPT !.op = "update",
                                    !.matched = ~Unmatched(contextToIndices(c))]
    IN  IF unm
        THEN /\ questRet' = Undefined
             /\ questCall' = call
             /\ UNCHANGED engines
        ELSE IF ~HasCell(ct, ix)
        THEN /\ questRet' = Thrown
             /\ questCall' = [call EXCEPT !.ctx = c]
             /\ UNCHANGED engines
        ELSE \/ \* eng.update throws; the catch clause logs a warning
                /\ questRet' = catchUpdate.ret
                /\ questCall' = [call EXCEPT !.ctx = c, !.engCalls = <<"update">>,
                                             !.threw = TRUE, !.warned = catchUpdate.warned]
                /\ UNCHANGED engines
             \/ /\ TotalObs < MaxUpdates
                /\ questRet' = Undefined
                /\ questCall' = [call EXCEPT !.ctx = c, !.engCalls = <<"update">>]
                /\ engines' = [engines EXCEPT ![EngKey(ct)][key].obs =
                                  Append(@, <<delta, IF responded THEN 1 ELSE 0>>)]

\* updateQuestWithOutcome with an index outside the bins clamped to the
\* first bin instead of the early return
updateQuestWithOutcome_clamped(c, delta, responded) ==
    LET ix == contextToIndices(c)
        cl == [ soaIdx |-> IF ix.soaIdx < 0 THEN 0 ELSE ix.soaIdx,
                eccIdx |-> IF ix.eccIdx < 0 THEN 0 ELSE ix.eccIdx,
                angIdx |-> IF ix.angIdx < 0 THEN 0 ELSE ix.angIdx ]
    IN  /\ updateFrom(c, cl, FALSE, delta, responded)
        /\ UNCHANGED <<page, gen, ctrlVars, idxVars, priorVars>>

\* updateQuestWithOutcome addressing the cell of the first direction group
\* whatever the direction of the context
updateQuestWithOutcome_noDirection(c, delta, responded) ==
    LET ix == contextToIndices(c)
    IN  /\ updateFrom(c, [ix EXCEPT !.angIdx = IF @ < 0 THEN @ ELSE 0], Unmatched(ix),
                      delta, responded)
        /\ UNCHANGED <<page, gen, ctrlVars, idxVars, priorVars>>

updateQuestWithOutcome(c, delta, responded) ==
    LET ix == contextToIndices(c)
    IN  /\ updateFrom(c, ix, Unmatched(ix), delta, responded)
        /\ UNCHANGED <<page, gen, ctrlVars, idxVars, priorVars>>

\* the dimensions in the order exportPosteriors visits them
DimOrder(pg) == IF pg = "vector" THEN <<"vector">> ELSE <<"theta", "radius">>

\* the cell keys <<dim, <<i, j, k>>>> in the order of the nested forEach:
\* SOA index, then eccentricity index, then direction index
CellOrder(pg) ==
    LET ne == Len(ECC_BINS)
        na == Len(ANG_GROUPS)
        per == Len(SOA_BINS) * ne * na
    IN  [ n \in 1..(per * Len(DimOrder(pg))) |->
            LET r == (n - 1) % per
            IN  << DimOrder(pg)[((n - 1) \div per) + 1],
                   << r \div (ne * na), (r \div na) % ne, r % na >> >> ]

\* the value undefined where a number is expected (est?.[0] of no array)
NoNumber == <<0, -1>>

\* how the engines answer getEstimates('mean') during one export: all with
\* an array, all by throwing, or all with an array but one cell of each
\* dimension, which throws or returns undefined
ExportBehaviours == {"arrays", "allThrow", "oneThrows", "oneUndefined"}

OddCell == <<1, 2, 3>>

MeanResult(b, pg, q) ==
    IF b = "allThrow" \/ (b = "oneThrows" /\ q[2] = OddCell)
    THEN [kind |-> "throw", val |-> <<>>]
    ELSE IF b = "oneUndefined" /\ q[2] = OddCell
    THEN [kind |-> "undefined", val |-> <<>>]
    ELSE [kind |-> "array",
          val |-> <<Grid(pg, q[1])[3], betaGrid[1], guessRate, lambdaGrid[1]>>]

\* the object pushed for cell q when getEstimates returned est
ExportRecord(q, est) ==
    [ dim   |-> q[1], i |-> q[2][1], j |-> q[2][2], k |-> q[2][3],
      alpha |-> IF est.kind = "array" /\ Len(est.val) >= 1 THEN est.val[1] ELSE NoNumber,
      beta  |-> IF est.kind = "array" /\ Len(est.val) >= 2 THEN est.val[2] ELSE NoNumber ]

Records(v) == [kind |-> "records", val |-> v]

\* what exportPosteriors pushes when every cell of the partition exists,
\* for each script and each behaviour of the engines: a cell whose
\* getEstimates throws leaves the try block before out.push
ExportOfAll ==
    [ a \in Pages \X ExportBehaviours |->
        LET answers(q) == MeanResult(a[2], a[1], q).kind # "throw"
            pushed == SelectSeq(CellOrder(a[1]), answers)
        IN  [ n \in 1..Len(pushed) |->
                ExportRecord(pushed[n], MeanResult(a[2], a[1], pushed[n])) ] ]

exportPosteriors ==
    \E b \in ExportBehaviours :
        LET exists(r) == <<r.i, r.j, r.k>> \in DOMAIN engines[r.dim]
        IN  /\ questRet' = Records(SelectSeq(ExportOfAll[<<page, b>>], exists))
            /\ questCall' = [NoQuestCall EXCEPT
                                !.op = "export",
                                !.est = [kind |-> b, val |-> <<>>],
                                !.engCalls = IF \E d \in DOMAIN engines : engines[d] # <<>>
                                             THEN <<"getEstimates">> ELSE <<>>]
            /\ UNCHANGED <<page, engines, gen, ctrlVars, idxVars, priorVars>>

\* contexts handed to the wrapper: three in the bins, the first and the
\* second in the same cell, and three outside (SOA too large, eccentricity
\* too large, SOA not a number)
QuestContexts(pg) ==
    { [changeType |-> ct, soaMs |-> <<q[1], 1>>, eccPx |-> <<q[2], 1>>, thetaRad |-> <<q[3], 1>>] :
         ct \in ChangeTypes(pg),
         q \in { <<150, 50, 0>>, <<199, 79, 0>>, <<200, 50, 90>>,
                 <<900, 50, 0>>, <<150, 300, 0>> } }
    \cup
    { [changeType |-> ct, soaMs |-> NaN, eccPx |-> <<50, 1>>, thetaRad |-> <<0, 1>>] :
         ct \in ChangeTypes(pg) }

\* stimulus magnitude reported with an outcome
Deltas == {Rat(6, 10)}

QuestInitCells == initAdaptiveQuest

QuestSuggest == \E c \in QuestContexts(page), t \in Targets : suggestDeltaForContext(c, t)

QuestUpdate ==
    \E c \in QuestContexts(page), delta \in Deltas, responded \in BOOLEAN :
        updateQuestWithOutcome(c, delta, responded)

QuestExport == exportPosteriors

QuestNext == QuestInitCells \/ QuestSuggest \/ QuestUpdate \/ QuestExport

(***************************************************************************)
(* alphaPriorOnGrid as a function of its arguments: the arguments are      *)
(* drawn from the grids and base thresholds of the two scripts, every      *)
(* triple of bin indices, and a grid of candidates far above every         *)
(* threshold; the function is applied to them.                             *)
(***************************************************************************)
FarGrid == << <<1000000, 1>>, <<2000000, 1>> >>

PriorGrids == {magnitudeGridDva, thetaDeltaGrid, radiusDeltaGrid, FarGrid}

PriorBases == {PriorBase(d) : d \in {"vector", "theta", "radius"}}

NoPriorIn == [alphaGrid |-> <<>>, soaIdx |-> -1, eccIdx |-> -1, angIdx |-> -1, base |-> NaN]

NoPrior == <<NaN>>

PriorIdle == priorIn = NoPriorIn /\ priorOut = NoPrior

PriorStart ==
    /\ priorIn \in [alphaGrid : PriorGrids,
                    soaIdx : 0..(Len(SOA_BINS) - 1),
                    eccIdx : 0..(Len(ECC_BINS) - 1),
                    angIdx : 0..(Len(ANG_GROUPS) - 1),
                    base : PriorBases]
    /\ priorOut = NoPrior

PriorApply ==
    /\ priorOut = NoPrior
    /\ priorOut' = alphaPriorOnGrid(priorIn.alphaGrid, priorIn.soaIdx, priorIn.eccIdx,
                                    priorIn.angIdx, priorIn.base)
    /\ UNCHANGED <<priorIn, ctrlVars, questVars, idxVars>>

(***************************************************************************)
(* Specifications.                                                         *)
(***************************************************************************)
CtrlInit == CtrlStart /\ QuestIdle /\ IdxIdle /\ PriorIdle

CtrlSpec == CtrlInit /\ [][CtrlNext]_vars

IdxInit == CtrlStart /\ QuestIdle /\ IdxStart /\ PriorIdle

IdxNext == IdxApply

IdxSpec == IdxInit /\ [][IdxNext]_vars

QuestInit == CtrlStart /\ QuestStart /\ IdxIdle /\ PriorIdle

QuestSpec == QuestInit /\ [][QuestNext]_vars

RunInit == CtrlStart /\ QuestIdle /\ IdxIdle /\ PriorIdle

RunSpec == RunInit /\ [][RunNext]_vars

PriorInit == CtrlStart /\ QuestIdle /\ IdxIdle /\ PriorStart

PriorNext == PriorApply

PriorSpec == PriorInit /\ [][PriorNext]_vars

(***************************************************************************)
(* Properties of NoGoCtrl, checked under CtrlSpec.                         *)
(***************************************************************************)
\* the call recorded by the last step was onTrialEnd on a catch trial
CatchStep == ctrlCall'.op = "onTrialEnd" /\ ctrlCall'.isNoGo

\* the call recorded by the last step was onTrialEnd on a non-catch trial
NonCatchStep == ctrlCall'.op = "onTrialEnd" /\ ~ctrlCall'.isNoGo

\* baseline + gain * error before clamping, from the stated formula
RawF(est) == RAdd(cfg.fBase, RMul(cfg.Kp, RMax(RZero, RSub(est, cfg.pTargetFA))))

Clamp(x, lo, hi) == RMax(lo, RMin(hi, x))

InClampRange(p) == RLeq(cfg.fMin, p) /\ RLeq(p, cfg.fMax)

\* C1: after any sequence of onTrialEnd calls the catch-trial probability
\* computed by pNoGo, as reported by stats().pNoGo and as used by
\* decideNoGo, lies in [fMin, fMax].
C1_Clamped ==
    /\ InClampRange(pNoGo)
    /\ ctrlCall.op = "stats" => InClampRange(statsRet.pNoGo)
    /\ ctrlCall.op = "decideNoGo" =>
          /\ RLess(ctrlCall.rnd, cfg.fMin) => decision
          /\ RLeq(cfg.fMax, ctrlCall.rnd) => ~decision

\* C1 witness: stats() reported a probability whose unclamped value
\* exceeds fMax.
C1_Witness ==
    /\ ctrlCall.op = "stats"
    /\ nNoGo > 1
    /\ RLess(cfg.fMax, RawF(faEma))
    /\ statsRet.pNoGo = cfg.fMax

\* C2: in every reachable state the catch probability equals
\* clamp(fBase + Kp * max(0, est - pTargetFA), fMin, fMax) with est the EMA
\* once a catch trial has been recorded and pTargetFA before; before any
\* catch trial it is 0.18, and at EMA = 0.25 it is 0.45.
C2_Formula ==
    /\ pNoGo = Clamp(RawF(IF nNoGo > 0 THEN faEma ELSE cfg.pTargetFA), cfg.fMin, cfg.fMax)
    /\ nNoGo = 0 => pNoGo = Rat(18, 100)
    /\ pNoGoAt(Rat(25, 100)) = Rat(45, 100)

\* C2 witness: an EMA above target whose probability is strictly between
\* baseline and maximum (no clamp applies).
C2_Witness ==
    /\ nNoGo > 0
    /\ RLess(cfg.pTargetFA, faEma)
    /\ RLess(cfg.fBase, pNoGo)
    /\ RLess(pNoGo, cfg.fMax)

\* C3: onTrialEnd on a non-catch trial leaves the EMA, both counters and
\* the catch probability unchanged.
C3_NonCatchFrame ==
    [][NonCatchStep =>
          /\ faEma' = faEma
          /\ nNoGo' = nNoGo
          /\ nFA' = nFA
          /\ pNoGoAt(faEma') = pNoGoAt(faEma)]_vars

\* C3 witness: a non-catch trial with a response was reported after catch
\* trials had been recorded.
C3_Witness ==
    /\ ctrlCall.op = "onTrialEnd"
    /\ ~ctrlCall.isNoGo
    /\ ctrlCall.responded
    /\ nNoGo > 0
    /\ nFA > 0

\* C4: a recorded catch trial adds exactly 1 to nNoGo and adds 1 to nFA
\* if responded and 0 otherwise; no step decreases either counter, and
\* 0 <= nFA <= nNoGo always.
C4_Counters ==
    /\ [](0 <= nFA /\ nFA <= nNoGo)
    /\ [][/\ nNoGo' >= nNoGo
          /\ nFA' >= nFA
          /\ CatchStep =>
                /\ nNoGo' = nNoGo + 1
                /\ nFA' = nFA + (IF ctrlCall'.responded THEN 1 ELSE 0)]_vars

\* C4 witness: catch trials of both kinds have been recorded.
C4_Witness ==
    /\ ctrlCall.op = "onTrialEnd"
    /\ ctrlCall.isNoGo
    /\ nFA > 0
    /\ nFA < nNoGo

\* C5: on a recorded catch trial the EMA becomes obs when it was null and
\* (1 - emaAlpha) * ema + emaAlpha * obs otherwise.
C5_EmaUpdate ==
    [][CatchStep =>
          LET obs == IF ctrlCall'.responded THEN ROne ELSE RZero
          IN  faEma' = IF faEma = Null
                       THEN obs
                       ELSE RAdd(RMul(Rat(88, 100), faEma), RMul(Rat(12, 100), obs))]_vars

\* C5 witness: a catch trial was smoothed into an existing EMA, giving a
\* value strictly between 0 and 1.
C5_Witness ==
    /\ ctrlCall.op = "onTrialEnd"
    /\ ctrlCall.isNoGo
    /\ nNoGo > 1
    /\ RLess(RZero, faEma)
    /\ RLess(faEma, ROne)

\* every catch trial recorded so far had responded = true
AllResponded == nFA = nNoGo

\* every catch trial recorded so far had responded = false
NoneResponded == nFA = 0

\* C6: while every recorded catch trial has responded = true, the catch
\* probability never decreases from one trial to the next, and it is at
\* fMax from the first such trial on.
C6_AllTrue ==
    /\ [][nFA' = nNoGo' => RLeq(pNoGoAt(faEma), pNoGoAt(faEma'))]_vars
    /\ [](AllResponded /\ nNoGo >= 1 => pNoGo = cfg.fMax)

\* C6 witness: a long run of catch trials, all with a response.
C6_Witness ==
    /\ AllResponded
    /\ nNoGo >= 100
    /\ pNoGo = cfg.fMax

\* C7: while every recorded catch trial has responded = false, the catch
\* probability equals fBase = 0.18 after every trial.
C7_AllFalse == NoneResponded => pNoGo = cfg.fBase /\ pNoGo = Rat(18, 100)

\* C7 witness: 100 catch trials, none with a response.
C7_Witness ==
    /\ NoneResponded
    /\ nNoGo >= 100
    /\ faEma = RZero

(***************************************************************************)
(* Properties of contextToIndices, checked under IdxSpec.                  *)
(***************************************************************************)
\* the bins of a dimension are ordered and do not overlap
BinsOrdered(bins) ==
    /\ \A b \in 1..Len(bins) : bins[b][1] < bins[b][2]
    /\ \A b \in 1..(Len(bins) - 1) : bins[b][2] <= bins[b + 1][1]

\* idx is the index the claim gives to value v: the bin with lo <= v < hi,
\* and -1 below the first bin and from the last bin's hi on
BinRule(v, bins, idx) ==
    /\ \A b \in 1..Len(bins) :
          RLeq(<<bins[b][1], 1>>, v) /\ RLess(v, <<bins[b][2], 1>>) => idx = b - 1
    /\ RLess(v, <<bins[1][1], 1>>) \/ RLeq(<<bins[Len(bins)][2], 1>>, v) => idx = -1

\* C8: contextToIndices maps every value inside a bin's [lo, hi) to that
\* bin's index (a shared boundary to the upper bin) and every value below
\* the first lo or at/above the last hi to -1; {soaMs: 150, eccPx: 50}
\* maps to (0, 0) and soaMs = 900 is unmatched.
C8_BinCoverage ==
    idxOut # NoIdx =>
       /\ BinsOrdered(SOA_BINS) /\ BinsOrdered(ECC_BINS)
       /\ BinRule(ctxIn.soaMs, SOA_BINS, idxOut.soaIdx)
       /\ BinRule(ctxIn.eccPx, ECC_BINS, idxOut.eccIdx)
       /\ ctxIn.soaMs = <<150, 1>> /\ ctxIn.eccPx = <<50, 1>> =>
             idxOut.soaIdx = 0 /\ idxOut.eccIdx = 0
       /\ ctxIn.soaMs = <<900, 1>> => idxOut.soaIdx = -1 /\ Unmatched(idxOut)

\* C8 witness: a value on a shared boundary went to the upper bin while
\* the value at the last bin's hi was unmatched.
C8_Witness ==
    /\ idxOut # NoIdx
    /\ ctxIn.soaMs = <<200, 1>>
    /\ idxOut.soaIdx = 1
    /\ ctxIn.eccPx = <<300, 1>>
    /\ idxOut.eccIdx = -1

(***************************************************************************)
(* Properties of the QUEST+ wrapper, checked under QuestSpec.              *)
(***************************************************************************)
\* C9: updateQuestWithOutcome with a context outside the bins changes no
\* cell, whatever the intensity and the outcome: no engine's update is
\* invoked and nothing is kept of the call.
C9_UnmatchedNoOp ==
    [][questCall'.op = "update" /\ ~questCall'.matched =>
          /\ engines' = engines
          /\ gen' = gen
          /\ page' = page
          /\ questCall'.engCalls = <<>>
          /\ questRet' = Undefined]_vars

\* C9 witness: an outcome for a context outside the bins was reported
\* while a cell already held an observation.
C9_Witness ==
    /\ questCall.op = "update"
    /\ ~questCall.matched
    /\ gen > 0
    /\ TotalObs > 0

\* C10: suggestDeltaForContext with a context outside the bins returns
\* the fallback constant (0.6 in adaptiveQuest.js, 12 in part_000),
\* whatever the target and the cells, and consults no engine.
C10_Fallback ==
    questCall.op = "suggest" /\ ~questCall.matched =>
       /\ questRet = Value(IF page = "vector" THEN Rat(6, 10) ELSE <<12, 1>>)
       /\ questCall.engCalls = <<>>

\* C10 witness: a proposal was asked for a context outside the bins
\* while a cell already held an observation.
C10_Witness ==
    /\ questCall.op = "suggest"
    /\ ~questCall.matched
    /\ questRet.kind = "value"
    /\ gen > 0
    /\ TotalObs > 0

(***************************************************************************)
(* Properties of the proposal, checked under QuestSpec.                    *)
(***************************************************************************)
\* getEstimates returned an array of at least four values
Usable(est) == est.kind = "array" /\ Len(est.val) >= 4

\* the four values are numbers
Numeric(est) == \A n \in 1..4 : est.val[n] # NaN

\* |pWeibull(v, alpha, beta, guess, lapse) - target| for every candidate v
\* of the grid, for every estimate and target the cells are asked with
ModelDiff ==
    [ a \in { <<q[1], q[2], q[3], q[4]>> : q \in ScanCases } |->
        [ n \in 1..Len(Grid(a[1], a[2])) |->
            LET p == pWeibull(Grid(a[1], a[2])[n], a[3][1], a[3][2], a[3][3], a[3][4])
            IN  IF p = NaN THEN NaN ELSE RAbs(RSub(p, a[4])) ] ]

\* the last call was a proposal for a context in the bins whose cell gave
\* a point estimate
RefinedSuggest ==
    /\ questCall.op = "suggest"
    /\ questCall.matched
    /\ Usable(questCall.est)
    /\ Numeric(questCall.est)

\* the distances of the last call's candidates from its target
LastDiff == ModelDiff[<<page, questCall.ctx.changeType, questCall.est.val, questCall.target>>]

\* C11: for a matched context whose cell yields a point estimate,
\* suggestDeltaForContext returns the grid value whose modelled detection
\* probability is closest to the target among all candidates, and the
\* first such value in ascending grid order when several are equally close.
C11_ClosestFirst ==
    RefinedSuggest =>
        LET grid == Grid(page, questCall.ctx.changeType)
        IN  \E n \in 1..Len(grid) :
               /\ questRet = Value(grid[n])
               /\ \A m \in 1..Len(grid) : RLeq(LastDiff[n], LastDiff[m])
               /\ \A m \in 1..(n - 1) : RLess(LastDiff[n], LastDiff[m])

\* C11 witness: a proposal was refined to a candidate other than the
\* engine's own, with a later candidate exactly as close to the target.
C11_Witness ==
    /\ RefinedSuggest
    /\ questRet # Value(questCall.stim.val)
    /\ LET grid == Grid(page, questCall.ctx.changeType)
       IN  \E n \in 1..Len(grid) : \E m \in (n + 1)..Len(grid) :
              questRet = Value(grid[n]) /\ LastDiff[m] = LastDiff[n]

\* C12: for a matched context, when getEstimates throws or returns
\* something that is not an array of at least four values,
\* suggestDeltaForContext raises nothing and returns the value of
\* getStimParams.
C12_EstimateFallback ==
    /\ questCall.op = "suggest"
    /\ questCall.matched
    /\ questCall.est.kind # "none"
    /\ ~Usable(questCall.est)
    => questRet = Value(questCall.stim.val)

\* C12 witness: getEstimates threw during a proposal for a context in the
\* bins, and the proposal returned the engine's own value.
C12_Witness ==
    /\ questCall.op = "suggest"
    /\ questCall.matched
    /\ questCall.engCalls = <<"getStimParams", "getEstimates">>
    /\ questCall.est.kind = "throw"
    /\ questRet.kind = "value"

\* C13: for a matched context, an exception of the cell's update is caught
\* and logged inside updateQuestWithOutcome: the call returns normally, and
\* the cells and their number stay as they were for the calls that follow.
C13_UpdateFailureCaught ==
    [][questCall'.op = "update" /\ questCall'.matched /\ questCall'.threw =>
          /\ questRet' = Undefined
          /\ questCall'.warned
          /\ gen' = gen
          /\ \A d \in DOMAIN engines : DOMAIN engines'[d] = DOMAIN engines[d]]_vars

\* C13 witness: eng.update threw for a context in the bins while another
\* observation was already held, and the call returned undefined.
C13_Witness ==
    /\ questCall.op = "update"
    /\ questCall.matched
    /\ questCall.threw
    /\ questRet = Undefined
    /\ TotalObs > 0

(***************************************************************************)
(* Properties of the estimator's error handling and export, checked under   *)
(* QuestSpec.                                                              *)
(***************************************************************************)
\* C14: every estimator operation returns normally, for every context,
\* every change type, every behaviour of the engines and every order of
\* calls, also before initAdaptiveQuest has run: no call raises to the
\* trial loop.
C14_NoFatalErrors == questRet.kind # "throw"

\* the keys of the cells that exist, in partition order
ExistingCells ==
    LET exists(q) == q[2] \in DOMAIN engines[q[1]]
    IN  SelectSeq(CellOrder(page), exists)

\* C15: exportPosteriors returns exactly one record for every cell, in
\* partition order, whatever the cells' states; a cell whose estimate
\* cannot be computed has its record too, with no number for alpha and
\* beta.
C15_OneRecordPerCell ==
    questCall.op = "export" =>
        /\ questRet.kind = "records"
        /\ Len(questRet.val) = Len(ExistingCells)
        /\ \A n \in 1..Len(questRet.val) :
              LET r == questRet.val[n]
                  q == ExistingCells[n]
              IN  /\ <<r.dim, <<r.i, r.j, r.k>>>> = q
                  /\ MeanResult(questCall.est.kind, page, q).kind # "array" =>
                        r.alpha = NoNumber /\ r.beta = NoNumber

\* C16: suggestDeltaForContext (context in the bins or not, estimate
\* available or not) and exportPosteriors leave every cell, with what it
\* has accumulated, and the set of cells unchanged.
C16_QueriesReadOnly ==
    [][questCall'.op \in {"suggest", "export"} =>
          engines' = engines /\ gen' = gen /\ page' = page]_vars

\* C16 witness: a proposal was computed from a cell's estimate while the
\* cells held an observation.
C16_Witness ==
    /\ questCall.op = "suggest"
    /\ questCall.matched
    /\ Usable(questCall.est)
    /\ TotalObs > 0

(***************************************************************************)
(* Frame of the controller's queries, checked under CtrlSpec.              *)
(***************************************************************************)
\* C17: decideNoGo and stats, in any number and order, leave the moving
\* average, nNoGo and nFA unchanged, and the catch-trial probability
\* changes only in a step that is onTrialEnd on a catch trial.
C17_CtrlQueriesReadOnly ==
    /\ [][ctrlCall'.op \in {"decideNoGo", "stats"} =>
             faEma' = faEma /\ nNoGo' = nNoGo /\ nFA' = nFA]_vars
    /\ [][pNoGoAt(faEma') # pNoGoAt(faEma) => CatchStep]_vars

\* C17 witness: decideNoGo answered true after catch trials with and
\* without a response had been recorded.
C17_Witness ==
    /\ ctrlCall.op = "decideNoGo"
    /\ decision
    /\ nNoGo >= 2
    /\ nFA >= 1
    /\ nFA < nNoGo

(***************************************************************************)
(* Properties of the cells, checked under QuestSpec.                       *)
(***************************************************************************)
\* C18: once initAdaptiveQuest has run, each estimated quantity has one
\* cell for every combination of bin indices, 4 x 4 x 4 = 64 cells, the
\* product of the bin counts, in that state and in every later one.
C18_GridComplete ==
    gen > 0 =>
        /\ DOMAIN engines = Dims(page)
        /\ \A d \in Dims(page) :
              /\ \A i \in 0..3, j \in 0..3, k \in 0..3 : <<i, j, k>> \in DOMAIN engines[d]
              /\ Cardinality(DOMAIN engines[d]) = Len(SOA_BINS) * Len(ECC_BINS) * Len(ANG_GROUPS)
              /\ Cardinality(DOMAIN engines[d]) = 64

\* C18 witness: the cells were built a second time after an outcome had
\* been recorded, and an outcome was recorded again.
C18_Witness ==
    /\ gen = 2
    /\ questCall.op = "update"
    /\ TotalObs > 0

\* s is an initial part of t
IsPrefix(s, t) == Len(s) <= Len(t) /\ SubSeq(t, 1, Len(s)) = s

\* C19: cells are created once: after they exist, no call of
\* initAdaptiveQuest, suggestDeltaForContext, updateQuestWithOutcome or
\* exportAdaptivePosteriors replaces or discards a cell or the observations
\* it has accumulated.
C19_CellsPersist ==
    [][\A d \in DOMAIN engines : \A ix \in DOMAIN engines[d] :
          /\ ix \in DOMAIN engines'[d]
          /\ engines'[d][ix].gen = engines[d][ix].gen
          /\ IsPrefix(engines[d][ix].obs, engines'[d][ix].obs)]_vars

\* the cells that differ between the engines before and after a step
ChangedCells ==
    { q \in (DOMAIN engines) \X CellIdx :
         \/ (q[2] \in DOMAIN engines[q[1]]) # (q[2] \in DOMAIN engines'[q[1]])
         \/ /\ q[2] \in DOMAIN engines[q[1]]
            /\ engines'[q[1]][q[2]] # engines[q[1]][q[2]] }

\* the key of the cell addressed by context c
CellKeyOf(c) ==
    LET ix == contextToIndices(c)
    IN  <<EngKey(c.changeType), <<ix.soaIdx, ix.eccIdx, ix.angIdx>>>>

\* C20: updateQuestWithOutcome for a matched context changes the cell at
\* that context's bin indices, of the selected quantity, and no other
\* cell; so two contexts reach the same cell exactly when their bin
\* indices (and quantity) are the same.
C20_CellsIndependent ==
    [][questCall'.op = "update" /\ questCall'.matched =>
          /\ ChangedCells \subseteq {CellKeyOf(questCall'.ctx)}
          /\ questCall'.engCalls = <<"update">> /\ ~questCall'.threw =>
                ChangedCells = {CellKeyOf(questCall'.ctx)}]_vars

\* C20 witness: an outcome was recorded in the cell of a context with a
\* direction other than the first group's, all other cells being as built.
C20_Witness ==
    /\ questCall.op = "update"
    /\ questCall.matched
    /\ questCall.engCalls = <<"update">>
    /\ ~questCall.threw
    /\ CellKeyOf(questCall.ctx)[2][3] = 1
    /\ engines[CellKeyOf(questCall.ctx)[1]][CellKeyOf(questCall.ctx)[2]].obs # <<>>
    /\ TotalObs = 1

(***************************************************************************)
(* C21-C30.                                                                *)
(***************************************************************************)
\* the sum of a vector of rationals
RECURSIVE RSumRange(_, _, _)
RSumRange(v, lo, hi) ==
    IF lo > hi THEN RZero
    ELSE IF lo = hi THEN v[lo]
    ELSE LET mid == (lo + hi) \div 2
         IN  RAdd(RSumRange(v, lo, mid), RSumRange(v, mid + 1, hi))

RSum(v) == RSumRange(v, 1, Len(v))

\* the densities alphaPriorOnGrid computed for the arguments applied
AppliedPdf ==
    PriorPdf(priorIn.alphaGrid, priorIn.soaIdx, priorIn.eccIdx, priorIn.angIdx,
             priorIn.base)

AllZero(pdf) == \A n \in 1..Len(pdf) : pdf[n] = 0

\* C21: the vector alphaPriorOnGrid returns has one entry per candidate,
\* every entry is non-negative and the entries sum to 1; when all computed
\* densities are zero it is the uniform vector, each entry 1/n.
C21_PriorNormalized ==
    priorOut # NoPrior =>
        /\ Len(priorOut) = Len(priorIn.alphaGrid)
        /\ \A n \in 1..Len(priorOut) : RLeq(RZero, priorOut[n])
        /\ RSum(priorOut) = ROne
        /\ AllZero(AppliedPdf) =>
               \A n \in 1..Len(priorOut) : priorOut[n] = Rat(1, Len(priorOut))

\* a prior with some non-zero density is normalized
NonZeroPriorNormalized ==
    (priorOut # NoPrior /\ ~AllZero(AppliedPdf)) =>
        /\ \A n \in 1..Len(priorOut) : RLeq(RZero, priorOut[n])
        /\ RSum(priorOut) = ROne

\* the cells that have been built and have accepted no outcome
FreshCells ==
    { q \in (DOMAIN engines) \X CellIdx :
        q[2] \in DOMAIN engines[q[1]] /\ engines[q[1]][q[2]].obs = <<>> }

\* C22: before any outcome is recorded, the belief of each cell is seeded
\* with the log-normal alpha prior computed for the cell's bin indices and
\* with uniform beta and lapse priors, and two cells of a dimension with
\* different bin indices hold different alpha beliefs.
C22_PriorSeeded ==
    \A q \in FreshCells :
        /\ StartBelief(q[1], q[2]).alpha = PriorAlphaOf(q[1], q[2])
        /\ StartBelief(q[1], q[2]).beta = UniformVector(Len(betaGrid))
        /\ StartBelief(q[1], q[2]).lapse = UniformVector(Len(lambdaGrid))
        /\ \A r \in FreshCells :
               (r[1] = q[1] /\ r[2] # q[2]) =>
                   StartBelief(q[1], q[2]).alpha # StartBelief(r[1], r[2]).alpha

\* a step in which the caller writes into the snapshot or into its params
WriteStep == ctrlCall'.op = "write"

\* C23: whatever a caller writes into the object stats() returned, its
\* params sub-object included, changes neither the controller's
\* configuration nor its state, so the configuration stays the shipped one
\* and every later catch probability and decision is computed from the
\* same values as without the write.
C23_SnapshotIsolated ==
    [][/\ WriteStep => (cfg' = cfg /\ faEma' = faEma /\ nNoGo' = nNoGo /\ nFA' = nFA)
       /\ cfg' = ShippedCfg
       /\ ctrlCall'.op = "decideNoGo" => decision' = RLess(ctrlCall'.rnd, pNoGoAt(faEma'))]_vars

\* C23 witness: after catch trials were recorded, the caller has
\* overwritten fBase in the params of a snapshot.
C23_Witness ==
    /\ ctrlCall.op = "write"
    /\ nNoGo > 0
    /\ statsRet.params.fBase # ShippedCfg.fBase
    /\ cfg = ShippedCfg

\* C24: once 24 catch trials with responded = false have been recorded in
\* a row, from whatever state the run started and with any number of
\* non-catch trials in between, the catch probability is the baseline
\* fBase, and it is the baseline for as long as the run goes on.
C24_BackToBaseline == missRun >= 24 => pNoGo = cfg.fBase

\* C24 witness: a run of exactly 24 such trials that started from a
\* moving average of 1, the largest there is.
C24_Witness ==
    /\ missRun = 24
    /\ nFA >= 1
    /\ nNoGo = nFA + 24
    /\ RLess(RZero, faEma)
    /\ pNoGo = cfg.fBase

\* the bound is not reached earlier from a moving average of 1: after 23
\* trials of the run the catch probability is still above the baseline
RunTooShort ==
    /\ missRun = 23
    /\ RLess(cfg.fBase, pNoGo)

\* C25: recording a catch trial with responded = true never lowers the
\* catch probability, and recording one with responded = false never
\* raises it.
C25_RightDirection ==
    [][CatchStep =>
          /\ ctrlCall'.responded => RLeq(pNoGo, pNoGoAt(faEma'))
          /\ ~ctrlCall'.responded => RLeq(pNoGoAt(faEma'), pNoGo)]_vars

\* C25 witness: a catch trial with responded = false has just been
\* recorded after a false alarm, and the catch probability is strictly
\* between the baseline and the upper clamp, so it has moved down from a
\* value that had moved up.
C25_Witness ==
    /\ ctrlCall.op = "onTrialEnd"
    /\ ctrlCall.isNoGo
    /\ ~ctrlCall.responded
    /\ nFA >= 1
    /\ RLess(cfg.fBase, pNoGo)
    /\ RLess(pNoGo, cfg.fMax)

\* C26: in every reachable state fBase <= pNoGo <= fMax; the lower clamp
\* fMin is never the value returned, and with an estimated false-alarm
\* rate below the target the catch probability is the baseline.
C26_NeverBelowBaseline ==
    /\ RLeq(cfg.fBase, pNoGo)
    /\ RLeq(pNoGo, cfg.fMax)
    /\ pNoGo # cfg.fMin
    /\ RLess(estFA, cfg.pTargetFA) => pNoGo = cfg.fBase
    /\ ctrlCall.op = "stats" => RLeq(cfg.fBase, statsRet.pNoGo)

\* C26 witness: catch trials have been recorded, the moving average is
\* below the target and the catch probability is the baseline.
C26_Witness ==
    /\ nNoGo > 1
    /\ faEma # Null
    /\ RLess(faEma, cfg.pTargetFA)
    /\ pNoGo = cfg.fBase

\* C27: the moving average is null exactly when no catch trial has been
\* recorded, it never returns to null once set, and whenever it is not
\* null it lies in [0, 1].
C27_WellFormed ==
    /\ [](/\ (faEma = Null) <=> (nNoGo = 0)
          /\ faEma # Null => (RLeq(RZero, faEma) /\ RLeq(faEma, ROne))
          /\ nFA <= nNoGo)
    /\ [][faEma # Null => faEma' # Null]_vars

\* C27 witness: after several catch trials the moving average is strictly
\* inside the interval.
C27_Witness ==
    /\ nNoGo >= 2
    /\ faEma # Null
    /\ RLess(RZero, faEma)
    /\ RLess(faEma, ROne)

\* the members of the stimulus grid of the cells changeType ct selects
GridMembers(ct) == { Grid(page, ct)[n] : n \in 1..Len(Grid(page, ct)) }

\* C28: for a matched context the value suggestDeltaForContext returns is
\* a member of the stimulus grid of the cell or the engine's own proposal;
\* when the estimate has a NaN parameter, so that every modelled
\* probability is NaN, it is the engine's own proposal.
C28_GridOrDefault ==
    (questCall.op = "suggest" /\ questCall.matched /\ questRet.kind = "value") =>
        /\ questRet.val \in GridMembers(questCall.ctx.changeType) \cup {questCall.stim.val}
        /\ (Usable(questCall.est) /\ ~Numeric(questCall.est)) =>
               questRet.val = questCall.stim.val

\* C28 witness: the engine returned an estimate of four NaN for a matched
\* context and the proposal returned is the engine's own.
C28_Witness ==
    /\ questCall.op = "suggest"
    /\ questCall.matched
    /\ Usable(questCall.est)
    /\ \A n \in 1..4 : questCall.est.val[n] = NaN
    /\ questRet = Value(questCall.stim.val)

\* the sector that contains an angle of t whole degrees reduced to [0, 360)
SectorOf(t) ==
    LET d == t % 360
    IN  IF d < 45 \/ d >= 315 THEN "E"
        ELSE IF d < 135 THEN "N"
        ELSE IF d < 225 THEN "W"
        ELSE "S"

\* full turns added to and taken from an angle
Turns == 1..3

\* C29: for every angle, positive or negative and of any magnitude, the
\* sector angGroup answers is the one that contains the angle reduced to
\* [0, 360) degrees, and it is the same for the angle plus or minus any
\* whole number of full turns.
C29_SectorPeriodic ==
    (idxOut # NoIdx /\ ctxIn.thetaRad[2] # 0) =>
        LET t == ctxIn.thetaRad[1]
        IN  /\ ANG_GROUPS[idxOut.angIdx + 1].grp = SectorOf(t)
            /\ angGroup(<<t, 1>>) = SectorOf(t)
            /\ \A k \in Turns :
                  /\ angGroup(<<t + 360 * k, 1>>) = angGroup(<<t, 1>>)
                  /\ angGroup(<<t - 360 * k, 1>>) = angGroup(<<t, 1>>)

\* the direction sector is the right one for every angle from one full
\* turn below zero upwards
SectorRightFromMinusTurn ==
    (idxOut # NoIdx /\ ctxIn.thetaRad[2] # 0 /\ ctxIn.thetaRad[1] >= -360) =>
        ANG_GROUPS[idxOut.angIdx + 1].grp = SectorOf(ctxIn.thetaRad[1])

\* the value lies in one of the bins
InSomeBin(v, bins) == \E i \in 1..Len(bins) : inRange(v, bins[i])

\* C30: for every angle value contextToIndices yields a direction index in
\* 0..3, so a context is unmatched exactly when its soaMs or its eccPx
\* lies outside all the bins.
C30_DirectionAlwaysMatched ==
    idxOut # NoIdx =>
        /\ idxOut.angIdx \in 0..3
        /\ Unmatched(idxOut) <=>
              (~InSomeBin(ctxIn.soaMs, SOA_BINS) \/ ~InSomeBin(ctxIn.eccPx, ECC_BINS))

\* C30 witness: a context whose angle is not a number and whose soaMs and
\* eccPx are in bins is matched, with the direction index 3.
C30_Witness ==
    /\ idxOut # NoIdx
    /\ ctxIn.thetaRad = NaN
    /\ idxOut.angIdx = 3
    /\ ~Unmatched(idxOut)

====
